---- MODULE Spec2Model ----
(***************************************************************************)
(* Model of tools/rpm-packaging-status.py (openstack/rpm-packaging-tools). *)
(*                                                                         *)
(* Python strings are modelled as sequences of tokens (TLA+ strings), so   *)
(* that parsing, splitting and pattern matching are computed and not       *)
(* assumed.  A version string is  n  or  n.n , optionally followed by the  *)
(* token "dev" (standing for ".dev0").  packaging.version.parse turns it   *)
(* into a Version whose comparison key strips trailing zero segments.      *)
(***************************************************************************)
EXTENDS Integers, Sequences, FiniteSets, TLC

VARIABLES
    pc,                  \* position of the modelled call
    x,                   \* _pretty_table: the record V of the current row
    comment,             \* _pretty_table: the comment of the current row
    pkg_project_spec,    \* find_rpm_packaging_pkg_version: the template file
    v_rpm_packaging_pkg, \* its return value
    stdout,              \* lines printed
    constraints_txt,     \* read_upper_constraints: lines of the file
    upper_constraints,   \* its return value (dict name -> version string)
    published_xml,       \* find_openbuildservice_pkg_version: the manifest
    pkg_name,            \* its pkg_name argument
    v_obs_published,     \* its return value
    include_projects,    \* main: args['include_projects']
    yaml_files,          \* main: the descriptor files, in processing order
    idx,                 \* main: loop position (yaml files / reviews)
    projects,            \* main: dict project_name -> V
    data_reviews,        \* _gerrit_open_reviews_per_file: the change list
    data,                \* _gerrit_open_reviews_per_file: dict being built
    open_reviews,        \* main: the returned dict
    error,               \* the exception that ended the run, or NoError
    table                \* the rendered rows (name -> comment)

vars == <<pc, x, comment, pkg_project_spec, v_rpm_packaging_pkg, stdout,
          constraints_txt, upper_constraints, published_xml, pkg_name,
          v_obs_published, include_projects, yaml_files, idx, projects,
          data_reviews, data, open_reviews, error, table>>

tableVars == <<x, comment>>
templateVars == <<pkg_project_spec, v_rpm_packaging_pkg>>
constraintVars == <<constraints_txt, upper_constraints>>
obsVars == <<published_xml, pkg_name, v_obs_published>>
mainVars == <<include_projects, yaml_files, idx, projects, data_reviews,
              data, open_reviews, error, table>>

-----------------------------------------------------------------------------
(* Bounds *)

\* largest number used as a release segment of a version string
MaxSeg == 1

\* largest number of lines of a packaging template
MaxLines == 3

\* largest number of lines of upper-constraints.txt
MaxConstraintLines == 2

\* largest number of entries of the published manifest
MaxEntries == 3

\* largest number of open changes gerrit lists
MaxReviews == 2

\* largest number of descriptor files in the two deliverables directories
MaxFiles == 2

-----------------------------------------------------------------------------
(* Version strings and packaging.version *)

NumTok == <<"0", "1", "2", "3", "4", "5", "6", "7", "8", "9">>

Digits == {NumTok[i + 1] : i \in 0..MaxSeg}

\* the number a digit token denotes
NumOf(t) == CHOOSE i \in 0..9 : NumTok[i + 1] = t

\* version strings: one or two release segments, optional dev suffix
ReleaseStrs == {<<a>> : a \in Digits} \cup {<<a, ".", b>> : a, b \in Digits}

VerStrs == ReleaseStrs \cup {r \o <<"dev">> : r \in ReleaseStrs}

\* s is written as a version: numbers joined by ".", optional dev suffix
IsVerStr(s) ==
    /\ Len(s) >= 1
    /\ LET body == IF s[Len(s)] = "dev" THEN SubSeq(s, 1, Len(s) - 1) ELSE s
       IN  /\ Len(body) % 2 = 1
           /\ \A i \in 1..Len(body) :
                 IF i % 2 = 1 THEN body[i] \in {NumTok[k] : k \in 1..10}
                 ELSE body[i] = "."

\* what version.parse gives for a string that is no version (a
\* LegacyVersion, which sorts before every Version)
LegacyVersion == [release |-> <<>>, stage |-> "legacy"]

\* version.parse(s): the release tuple as written, and the stage
Parse(s) ==
    IF IsVerStr(s)
    THEN LET nums == SelectSeq(s, LAMBDA t : t \in {NumTok[i] : i \in 1..10})
         IN  [release |-> [i \in 1..Len(nums) |-> NumOf(nums[i])],
              stage   |-> IF s[Len(s)] = "dev" THEN "dev" ELSE "final"]
    ELSE LegacyVersion

Versions == {Parse(s) : s \in VerStrs}

\* Version._key drops the trailing zeros of the release tuple
RECURSIVE StripZeros(_)
StripZeros(r) ==
    IF r = <<>> THEN <<>>
    ELSE IF r[Len(r)] = 0 THEN StripZeros(SubSeq(r, 1, Len(r) - 1))
    ELSE r

\* Python's comparison of two tuples of numbers
RECURSIVE TupleLt(_, _)
TupleLt(a, b) ==
    IF a = <<>> THEN b # <<>>
    ELSE IF b = <<>> THEN FALSE
    ELSE IF a[1] # b[1] THEN a[1] < b[1]
    ELSE TupleLt(Tail(a), Tail(b))

\* a dev release sorts before the final release of the same number
StageRank(st) == IF st = "legacy" THEN -1 ELSE IF st = "dev" THEN 0 ELSE 1

Key(v) == [release |-> StripZeros(v.release), rank |-> StageRank(v.stage)]

\* Version.__eq__, __lt__, __gt__ compare the keys
VEq(a, b) == Key(a) = Key(b)

VLt(a, b) ==
    \/ TupleLt(Key(a).release, Key(b).release)
    \/ Key(a).release = Key(b).release /\ Key(a).rank < Key(b).rank

VGt(a, b) == VLt(b, a)

\* version.parse('0'), the zero version
ZeroVersion == Parse(<<"0">>)

\* the str 'version unset' (no Version compares equal to it)
VersionUnset == [release |-> <<>>, stage |-> "version unset"]

\* the str '-' that stands for "no constraint"
Dash == <<"-">>

-----------------------------------------------------------------------------
(* _pretty_table: the comment of one row *)

NoComment == "<none>"

\* lines 170-173 with the assignment of line 173 inside an else branch
EqualBranchElse(r) ==
    IF r.upper_constraints # Dash
       /\ VGt(r.release, Parse(r.upper_constraints))
    THEN "needs downgrade (u-c)"
    ELSE "ok"

\* lines 170-173: the conditional assignment, then the unconditional one
EqualBranch(r) ==
    LET comment1 == IF r.upper_constraints # Dash
                       /\ VGt(r.release, Parse(r.upper_constraints))
                    THEN "needs downgrade (u-c)"
                    ELSE NoComment
        comment2 == "ok"
    IN  comment2

\* lines 163-177 with the comparisons of lines 167 and 174 exchanged
CommentOfSwapped(r) ==
    IF r.rpm_packaging_pkg = VersionUnset THEN "ok"
    ELSE IF VEq(r.rpm_packaging_pkg, ZeroVersion) THEN "unpackaged"
    ELSE IF VGt(r.rpm_packaging_pkg, r.release) THEN "needs upgrade"
    ELSE IF VEq(r.rpm_packaging_pkg, r.release) THEN EqualBranch(r)
    ELSE IF VLt(r.rpm_packaging_pkg, r.release) THEN "needs downgrade"
    ELSE ""

\* lines 163-177
CommentOf(r) ==
    IF r.rpm_packaging_pkg = VersionUnset THEN "ok"
    ELSE IF VEq(r.rpm_packaging_pkg, ZeroVersion) THEN "unpackaged"
    ELSE IF VLt(r.rpm_packaging_pkg, r.release) THEN "needs upgrade"
    ELSE IF VEq(r.rpm_packaging_pkg, r.release) THEN EqualBranch(r)
    ELSE IF VGt(r.rpm_packaging_pkg, r.release) THEN "needs downgrade"
    ELSE ""

\* the records V the classifier can be given (reviews and obs are not read)
Records ==
    [release           : Versions,
     upper_constraints : {Dash} \cup VerStrs,
     rpm_packaging_pkg : Versions \cup {VersionUnset}]

-----------------------------------------------------------------------------
(* find_rpm_packaging_pkg_version *)

MarkerOpen == "{% set upstream_version = '"
MarkerOpenCall == "{% set upstream_version = upstream_version('"
MarkerClose == "' %}"
MarkerCloseCall == "') %}"
Placeholder == "{{ py2rpmversion() }}"

\* positions where the declared-upstream-version pattern can start
MarkerStarts(l) ==
    {i \in 1..Len(l) : l[i] \in {MarkerOpen, MarkerOpenCall}}

\* re.search of lines 132-134: an opening anywhere, the closing at the end
MarkerMatches(l) ==
    /\ MarkerStarts(l) # {}
    /\ l[Len(l)] \in {MarkerClose, MarkerCloseCall}

\* group 'version' of the leftmost match (the .* is greedy)
MarkerGroup(l) ==
    LET i == CHOOSE k \in MarkerStarts(l) : \A j \in MarkerStarts(l) : k <= j
    IN  SubSeq(l, i + 1, Len(l) - 1)

\* re.search of line 138: anchored at the start of the line
VersionMatches(l) == Len(l) >= 1 /\ l[1] = "Version:"

VersionGroup(l) == Tail(l)

\* lines 139-142: the value a matching Version line returns
VersionFieldValue(l) ==
    IF VersionGroup(l) = <<Placeholder>> THEN VersionUnset
    ELSE Parse(VersionGroup(l))

NotFound == [found |-> FALSE, ret |-> ZeroVersion]

\* lines 130-142 with the loop running on after a match (the last wins)
RECURSIVE ScanLinesLastMatch(_)
ScanLinesLastMatch(ls) ==
    IF ls = <<>> THEN NotFound
    ELSE LET rest == ScanLinesLastMatch(Tail(ls))
         IN  IF rest.found THEN rest
             ELSE IF MarkerMatches(ls[1])
                  THEN [found |-> TRUE, ret |-> Parse(MarkerGroup(ls[1]))]
             ELSE IF VersionMatches(ls[1])
                  THEN [found |-> TRUE, ret |-> VersionFieldValue(ls[1])]
             ELSE NotFound

\* lines 130-142 with the whole file searched for the marker first
ScanLinesMarkerWins(ls) ==
    LET ms == {i \in 1..Len(ls) : MarkerMatches(ls[i])}
        fs == {i \in 1..Len(ls) : VersionMatches(ls[i])}
    IN  IF ms # {}
        THEN [found |-> TRUE,
              ret   |-> Parse(MarkerGroup(
                            ls[CHOOSE m \in ms : \A n \in ms : m <= n]))]
        ELSE IF fs # {}
        THEN [found |-> TRUE,
              ret   |-> VersionFieldValue(
                            ls[CHOOSE m \in fs : \A n \in fs : m <= n])]
        ELSE NotFound

\* lines 130-142: the loop over the lines, returning at the first match
RECURSIVE ScanLines(_)
ScanLines(ls) ==
    IF ls = <<>> THEN NotFound
    ELSE IF MarkerMatches(ls[1])
         THEN [found |-> TRUE, ret |-> Parse(MarkerGroup(ls[1]))]
    ELSE IF VersionMatches(ls[1])
         THEN [found |-> TRUE, ret |-> VersionFieldValue(ls[1])]
    ELSE ScanLines(Tail(ls))

ErrorMessage == "ERROR: no version in spec found"

\* lines 128-146 with the message printed for a missing file as well
FindRpmPackagingPkgVersionLoud(f) ==
    IF f.exists
    THEN LET r == ScanLines(f.lines)
         IN  IF r.found THEN [ret |-> r.ret, out |-> <<>>]
             ELSE [ret |-> ZeroVersion, out |-> <<ErrorMessage>>]
    ELSE [ret |-> ZeroVersion, out |-> <<ErrorMessage>>]

\* lines 128-146: the return value and what is printed
FindRpmPackagingPkgVersion(f) ==
    IF f.exists
    THEN LET r == ScanLines(f.lines)
         IN  IF r.found THEN [ret |-> r.ret, out |-> <<>>]
             ELSE [ret |-> ZeroVersion, out |-> <<ErrorMessage>>]
    ELSE [ret |-> ZeroVersion, out |-> <<>>]

\* version strings written in the templates of the model
TemplateVerStrs == {<<d>> : d \in Digits}

TemplateLines ==
    {<<MarkerOpen>> \o v \o <<MarkerClose>> : v \in TemplateVerStrs}
    \cup {<<"Version:">> \o v : v \in TemplateVerStrs}
    \cup {<<"Version:", MarkerOpenCall>> \o v \o <<MarkerCloseCall>> :
              v \in TemplateVerStrs}
    \cup {<<"Version:", Placeholder>>,
          <<"Name:", "foo">>,
          <<MarkerOpen, "1", MarkerClose, "# trailing">>}

SeqsUpTo(S, n) == UNION {[1..k -> S] : k \in 0..n}

AbsentFile == [exists |-> FALSE, lines |-> <<>>]

\* a Python dict is a function; d[k] = v
EmptyDict == <<>>

DictSet(d, k, v) == [n \in DOMAIN d \cup {k} |-> IF n = k THEN v ELSE d[n]]

TemplateFiles ==
    {AbsentFile}
    \cup {[exists |-> TRUE, lines |-> ls] : ls \in SeqsUpTo(TemplateLines, MaxLines)}

-----------------------------------------------------------------------------
(* read_upper_constraints *)

\* str.find / str.rfind: the 0-based position of a token, or -1
Find(s, c) ==
    IF \E i \in 1..Len(s) : s[i] = c
    THEN (CHOOSE i \in 1..Len(s) :
              s[i] = c /\ \A j \in 1..(i - 1) : s[j] # c) - 1
    ELSE -1

RFind(s, c) ==
    IF \E i \in 1..Len(s) : s[i] = c
    THEN (CHOOSE i \in 1..Len(s) :
              s[i] = c /\ \A j \in (i + 1)..Len(s) : s[j] # c) - 1
    ELSE -1

\* Python's s[lo:hi] for 0-based bounds that may be negative
PyIndex(s, i) ==
    IF i < 0 THEN (IF i + Len(s) < 0 THEN 0 ELSE i + Len(s))
    ELSE IF i > Len(s) THEN Len(s) ELSE i

PySlice(s, lo, hi) == SubSeq(s, PyIndex(s, lo) + 1, PyIndex(s, hi))

\* line 223: l.split(';')[0]
SplitMarker(l) ==
    IF Find(l, ";") = -1 THEN l ELSE PySlice(l, 0, Find(l, ";"))

\* the pieces of s between the separators sep
RECURSIVE SplitOn(_, _)
SplitOn(s, sep) ==
    IF Find(s, sep) = -1 THEN <<s>>
    ELSE <<PySlice(s, 0, Find(s, sep))>>
         \o SplitOn(PySlice(s, Find(s, sep) + 1, Len(s)), sep)

\* line 224: Requirement(l): the name and the SpecifierSet (a set)
Requirement(l) ==
    LET pieces == IF Len(l) <= 1 THEN <<>> ELSE SplitOn(Tail(l), ",")
    IN  [name      |-> l[1],
         specifier |-> {[operator |-> pieces[i][1],
                         version  |-> Tail(pieces[i])] :
                            i \in 1..Len(pieces)}]

\* lines 221-228 keeping only the specifiers with an exact-version operator
RECURSIVE ReadLinesExactOnly(_, _)
ReadLinesExactOnly(ls, uc) ==
    IF ls = <<>> THEN {uc}
    ELSE LET r == Requirement(SplitMarker(ls[1]))
             exact == {s \in r.specifier : s.operator \in {"===", "=="}}
         IN  IF exact = {} THEN ReadLinesExactOnly(Tail(ls), uc)
             ELSE UNION {ReadLinesExactOnly(Tail(ls),
                                            DictSet(uc, r.name, s.version)) :
                             s \in exact}

\* lines 221-228 keeping the entry a name already has (setdefault)
RECURSIVE ReadLinesKeepFirst(_, _)
ReadLinesKeepFirst(ls, uc) ==
    IF ls = <<>> THEN {uc}
    ELSE LET r == Requirement(SplitMarker(ls[1]))
         IN  IF r.specifier = {} \/ r.name \in DOMAIN uc
             THEN ReadLinesKeepFirst(Tail(ls), uc)
             ELSE UNION {ReadLinesKeepFirst(Tail(ls),
                                            DictSet(uc, r.name, s.version)) :
                             s \in r.specifier}

\* lines 221-228: the dicts the loop can end with.  The specifier the inner
\* loop sees first is any one of the set (its iteration order is by hash).
RECURSIVE ReadLines(_, _)
ReadLines(ls, uc) ==
    IF ls = <<>> THEN {uc}
    ELSE LET r == Requirement(SplitMarker(ls[1]))
         IN  IF r.specifier = {} THEN ReadLines(Tail(ls), uc)
             ELSE UNION {ReadLines(Tail(ls), DictSet(uc, r.name, s.version)) :
                             s \in r.specifier}

\* lines 218-229
ReadUpperConstraints(lines) == ReadLines(lines, EmptyDict)

ProjectNames == {"foo", "bar"}

ConstraintVers == {<<"1">>, <<"2">>}

EnvMarker == <<";", "python_version>='3'">>

ConstraintLines ==
    LET reqs ==
            {<<n>> : n \in ProjectNames}
            \cup {<<n, op>> \o v : n \in ProjectNames,
                                   op \in {"===", "<", ">="},
                                   v \in ConstraintVers}
            \cup {<<n, "<">> \o v \o <<",", ">=">> \o w :
                      n \in ProjectNames, v \in ConstraintVers,
                      w \in ConstraintVers}
    IN  reqs \cup {r \o EnvMarker : r \in reqs}

ConstraintFiles == SeqsUpTo(ConstraintLines, MaxConstraintLines)

-----------------------------------------------------------------------------
(* _rpm_split_filename and find_openbuildservice_pkg_version *)

\* str.startswith / str.endswith
StartsWith(s, t) == Len(s) >= Len(t) /\ SubSeq(s, 1, Len(t)) = t

EndsWith(s, t) ==
    Len(s) >= Len(t) /\ SubSeq(s, Len(s) - Len(t) + 1, Len(s)) = t

\* lines 82-101
RpmSplitFilename(filename0) ==
    LET filename == IF EndsWith(filename0, <<".", "rpm">>)
                    THEN PySlice(filename0, 0, -2)
                    ELSE filename0
        archIndex == RFind(filename, ".")
        arch == PySlice(filename, archIndex + 1, Len(filename))
        relIndex == RFind(PySlice(filename, 0, archIndex), "-")
        rel == PySlice(filename, relIndex + 1, archIndex)
        verIndex == RFind(PySlice(filename, 0, relIndex), "-")
        ver == PySlice(filename, verIndex + 1, relIndex)
        epochIndex == Find(filename, ":")
        epoch == IF epochIndex = -1 THEN <<>>
                 ELSE PySlice(filename, 0, epochIndex)
        name == PySlice(filename, epochIndex + 1, verIndex)
    IN  [name |-> name, ver |-> ver, rel |-> rel, epoch |-> epoch,
         arch |-> arch]

\* pymod2pkg.module2package(pkg_name, 'suse'): the default rule
Module2Package(name) == <<"python", "-">> \o name

\* lines 116-118: the entries that are split
IsBinaryRpm(n) ==
    /\ ~StartsWith(n, <<"_">>)
    /\ EndsWith(n, <<".", "rpm">>)
    /\ ~EndsWith(n, <<".", "src", ".", "rpm">>)

\* the entries of the loop of lines 115-122 that reach the return
Matching(children, distro_pkg_name) ==
    {i \in 1..Len(children) :
        /\ IsBinaryRpm(children[i])
        /\ RpmSplitFilename(children[i]).name = distro_pkg_name}

\* lines 110-123 returning the highest of the matching versions
FindOpenbuildservicePkgVersionHighest(xml, name) ==
    IF xml.given /\ xml.exists
    THEN LET m == Matching(xml.lines, Module2Package(name))
             ver(i) == Parse(RpmSplitFilename(xml.lines[i]).ver)
         IN  IF m = {} THEN ZeroVersion
             ELSE ver(CHOOSE i \in m : \A j \in m : ~VLt(ver(i), ver(j)))
    ELSE ZeroVersion

\* lines 110-123: the first matching entry returns
FindOpenbuildservicePkgVersion(xml, name) ==
    IF xml.given /\ xml.exists
    THEN LET m == Matching(xml.lines, Module2Package(name))
         IN  IF m = {} THEN ZeroVersion
             ELSE Parse(RpmSplitFilename(
                      xml.lines[CHOOSE i \in m : \A j \in m : i <= j]).ver)
    ELSE ZeroVersion

ObsVers == {<<"1">>, <<"2">>, <<"1", ".", "0">>}

BinaryRpmName(distro, v) ==
    distro \o <<"-">> \o v \o <<"-", "1", ".", "noarch", ".", "rpm">>

ManifestEntries ==
    {BinaryRpmName(Module2Package(n), v) :
         n \in {<<"foo">>, <<"foo", "-", "doc">>}, v \in ObsVers}
    \cup {Module2Package(<<"foo">>) \o <<"-">> \o v
              \o <<"-", "1", ".", "src", ".", "rpm">> : v \in ObsVers}
    \cup {<<"1", ":">> \o BinaryRpmName(Module2Package(<<"foo">>), <<"2">>),
          <<"_">> \o BinaryRpmName(Module2Package(<<"foo">>), <<"2">>),
          <<"repomd", ".", "xml">>}

NoManifest == [given |-> FALSE, exists |-> FALSE, lines |-> <<>>]

Manifests ==
    {NoManifest, [given |-> TRUE, exists |-> FALSE, lines |-> <<>>]}
    \cup {[given |-> TRUE, exists |-> TRUE, lines |-> ls] :
              ls \in SeqsUpTo(ManifestEntries, MaxEntries)}

-----------------------------------------------------------------------------
(* find_highest_release_version, _gerrit_open_reviews_per_file, main *)

\* line 72: max() returns the first of the entries with the highest version
FindHighestReleaseVersion(releases) ==
    LET ver(i) == Parse(releases[i].version)
    IN  releases[CHOOSE i \in 1..Len(releases) :
                    /\ \A j \in 1..Len(releases) : ~VLt(ver(i), ver(j))
                    /\ \A j \in 1..(i - 1) : VLt(ver(j), ver(i))]

\* line 259: data.setdefault(f, []).append(number)
DictAppend(d, k, v) ==
    DictSet(d, k, (IF k \in DOMAIN d THEN d[k] ELSE <<>>) \o <<v>>)

\* lines 255-259: the files of one change (a directory name is one token)
RECURSIVE AddFiles(_, _, _)
AddFiles(d, fs, number) ==
    IF fs = {} THEN d
    ELSE LET f == CHOOSE g \in fs : TRUE
         IN  AddFiles(IF /\ StartsWith(f, <<"openstack", "/">>)
                         /\ EndsWith(f, <<"spec.j2">>)
                      THEN DictAppend(d, SplitOn(f, "/")[2][1], number)
                      ELSE d,
                      fs \ {f}, number)

SpecPath(n) == <<"openstack", "/", n, "/", n, ".", "spec.j2">>

\* the file lists gerrit answers with
FilesResponses ==
    {{SpecPath("foo"), <<"README">>},
     {SpecPath("bar"), <<"openstack", "/", "foo", "/", "foo", ".", "changes">>}}

\* line 285: re.sub('\.ya?ml$', '', basename); the name is one token
ProjectNameOf(basename) ==
    IF basename[Len(basename)] \in {".yaml", ".yml"}
    THEN PySlice(basename, 0, -1)[1]
    ELSE basename[1]

\* lines 287-288 never skipping a project
FilteredOutNever(name, include) == FALSE

\* lines 287-288: the include list is given and does not hold the name
FilteredOut(name, include) == include # {} /\ name \notin include

\* the packaging templates of the rpm-packaging checkout
RpmPackagingGitDir(name) ==
    IF name = "foo"
    THEN [exists |-> TRUE,
          lines  |-> <<<<"Name:", "foo">>, <<"Version:", "2", ".", "0">>>>]
    ELSE IF name = "bar"
    THEN [exists |-> TRUE, lines |-> <<<<"Name:", "bar">>>>]
    ELSE AbsentFile

\* the contents a descriptor can have: no 'releases', an empty list, lists
Descriptors ==
    {[has_releases |-> FALSE, releases |-> <<>>],
     [has_releases |-> TRUE, releases |-> <<>>],
     [has_releases |-> TRUE,
      releases |-> <<[version |-> <<"2">>, tarball_base |-> ""],
                     [version |-> <<"1">>, tarball_base |-> "baz"]>>],
     [has_releases |-> TRUE,
      releases |-> <<[version |-> <<"3">>, tarball_base |-> "baz"]>>]}

Basenames == {<<"foo", ".yaml">>, <<"foo", ".yml">>, <<"bar", ".yaml">>}

YamlFiles ==
    [dir : {"_independent", "release"}, basename : Basenames,
     data : Descriptors]

\* lines 280-283: the files of '_independent', then those of the release;
\* a directory holds a file name once
YamlListings ==
    {fs \in SeqsUpTo(YamlFiles, MaxFiles) :
        \A i, j \in 1..Len(fs) :
            i < j => /\ ~(fs[i].dir = "release" /\ fs[j].dir = "_independent")
                     /\ ~(fs[i].dir = fs[j].dir
                          /\ fs[i].basename = fs[j].basename)}

\* the constraints file of the requirements checkout
MainConstraints ==
    {<<<<"foo", "===", "1">> \o EnvMarker,
       <<"bar", "<", "2", ",", ">=", "1">>>>}

-----------------------------------------------------------------------------
(* Idle values of the variables a specification does not use *)

NoValue == [release |-> <<>>, stage |-> "<none>"]
NoError == "<none>"
NoRecord ==
    [release |-> NoValue, upper_constraints |-> Dash,
     rpm_packaging_pkg |-> NoValue]

IdleTable == x = NoRecord /\ comment = NoComment
IdleTemplate == pkg_project_spec = AbsentFile /\ v_rpm_packaging_pkg = NoValue
IdleConstraints == constraints_txt = <<>> /\ upper_constraints = EmptyDict
IdleObs ==
    /\ published_xml = NoManifest
    /\ pkg_name = <<>>
    /\ v_obs_published = NoValue
IdleMain ==
    /\ include_projects = {}
    /\ yaml_files = <<>>
    /\ idx = 0
    /\ projects = EmptyDict
    /\ data_reviews = <<>>
    /\ data = EmptyDict
    /\ open_reviews = EmptyDict
    /\ error = NoError
    /\ table = EmptyDict

-----------------------------------------------------------------------------
(* Specification of _pretty_table: one row *)

InitTable ==
    /\ pc = "row"
    /\ x \in Records
    /\ comment = NoComment
    /\ stdout = <<>>
    /\ IdleTemplate /\ IdleConstraints /\ IdleObs /\ IdleMain

\* lines 162-184: the comment of the row of x
PrettyTableRow ==
    /\ pc = "row"
    /\ comment' = CommentOf(x)
    /\ pc' = "done"
    /\ UNCHANGED <<x, stdout, templateVars, constraintVars, obsVars, mainVars>>

NextTable == PrettyTableRow

SpecTable == InitTable /\ [][NextTable]_vars

-----------------------------------------------------------------------------
(* Specification of find_rpm_packaging_pkg_version *)

InitTemplate ==
    /\ pc = "call"
    /\ pkg_project_spec \in TemplateFiles
    /\ v_rpm_packaging_pkg = NoValue
    /\ stdout = <<>>
    /\ IdleTable /\ IdleConstraints /\ IdleObs /\ IdleMain

\* lines 126-146
FindRpmPackagingPkgVersionCall ==
    /\ pc = "call"
    /\ LET r == FindRpmPackagingPkgVersion(pkg_project_spec)
       IN  /\ v_rpm_packaging_pkg' = r.ret
           /\ stdout' = stdout \o r.out
    /\ pc' = "done"
    /\ UNCHANGED <<pkg_project_spec, tableVars, constraintVars, obsVars,
                   mainVars>>

NextTemplate == FindRpmPackagingPkgVersionCall

SpecTemplate == InitTemplate /\ [][NextTemplate]_vars

-----------------------------------------------------------------------------
(* Specification of read_upper_constraints *)

InitConstraints ==
    /\ pc = "call"
    /\ constraints_txt \in ConstraintFiles
    /\ upper_constraints = EmptyDict
    /\ stdout = <<>>
    /\ IdleTable /\ IdleTemplate /\ IdleObs /\ IdleMain

\* lines 218-229
ReadUpperConstraintsCall ==
    /\ pc = "call"
    /\ upper_constraints' \in ReadUpperConstraints(constraints_txt)
    /\ pc' = "done"
    /\ UNCHANGED <<constraints_txt, stdout, tableVars, templateVars, obsVars,
                   mainVars>>

NextConstraints == ReadUpperConstraintsCall

SpecConstraints == InitConstraints /\ [][NextConstraints]_vars

-----------------------------------------------------------------------------
(* Specification of find_openbuildservice_pkg_version *)

InitObs ==
    /\ pc = "call"
    /\ published_xml \in Manifests
    /\ pkg_name \in {<<"foo">>, <<"bar">>}
    /\ v_obs_published = NoValue
    /\ stdout = <<>>
    /\ IdleTable /\ IdleTemplate /\ IdleConstraints /\ IdleMain

\* lines 104-123
FindOpenbuildservicePkgVersionCall ==
    /\ pc = "call"
    /\ v_obs_published' =
           FindOpenbuildservicePkgVersion(published_xml, pkg_name)
    /\ pc' = "done"
    /\ UNCHANGED <<published_xml, pkg_name, stdout, tableVars, templateVars,
                   constraintVars, mainVars>>

NextObs == FindOpenbuildservicePkgVersionCall

SpecObs == InitObs /\ [][NextObs]_vars

-----------------------------------------------------------------------------
(* Specification of main *)

Init ==
    /\ pc = "start"
    /\ include_projects \in SUBSET ProjectNames
    /\ constraints_txt \in MainConstraints
    /\ upper_constraints = EmptyDict
    /\ published_xml = NoManifest
    /\ pkg_name = <<>>
    /\ v_obs_published = NoValue
    /\ stdout = <<>>
    /\ yaml_files = <<>>
    /\ idx = 0
    /\ projects = EmptyDict
    /\ data_reviews = <<>>
    /\ data = EmptyDict
    /\ open_reviews = EmptyDict
    /\ error = NoError
    /\ table = EmptyDict
    /\ IdleTable /\ IdleTemplate

\* lines 268-269
MainReadUpperConstraints ==
    /\ pc = "start"
    /\ upper_constraints' \in ReadUpperConstraints(constraints_txt)
    /\ pc' = "reviews"
    /\ UNCHANGED <<constraints_txt, stdout, tableVars, templateVars, obsVars,
                   mainVars>>

\* lines 246-248: the request for the open changes
GerritChangesRequest ==
    /\ pc = "reviews"
    /\ \/ \* requests.get raises (no connection); nothing catches it
          /\ error' = "ConnectionError"
          /\ pc' = "raised"
          /\ UNCHANGED <<data_reviews, data, idx, open_reviews>>
       \/ \* status_code is not 200: the empty dict is returned
          /\ open_reviews' = EmptyDict
          /\ pc' = "listdir"
          /\ UNCHANGED <<data_reviews, data, idx, error>>
       \/ \* status_code is 200: the changes are numbered 1..k
          \E k \in 0..MaxReviews :
              IF k = 0
              THEN /\ open_reviews' = EmptyDict
                   /\ pc' = "listdir"
                   /\ UNCHANGED <<data_reviews, data, idx, error>>
              ELSE /\ data_reviews' = [i \in 1..k |-> i]
                   /\ data' = EmptyDict
                   /\ idx' = 1
                   /\ pc' = "files"
                   /\ UNCHANGED <<open_reviews, error>>
    /\ UNCHANGED <<constraintVars, stdout, tableVars, templateVars, obsVars,
                   include_projects, yaml_files, projects, table>>

\* line 260 after the last change: the function returns data
GerritReturn(d) ==
    IF idx = Len(data_reviews)
    THEN /\ open_reviews' = d
         /\ data' = EmptyDict
         /\ data_reviews' = <<>>
         /\ idx' = 0
         /\ pc' = "listdir"
    ELSE /\ data' = d
         /\ idx' = idx + 1
         /\ pc' = "files"
         /\ UNCHANGED <<open_reviews, data_reviews>>

\* lines 250-259: the request for the files of one change
GerritFilesRequest ==
    /\ pc = "files"
    /\ \/ \* requests.get raises
          /\ error' = "ConnectionError"
          /\ pc' = "raised"
          /\ UNCHANGED <<data_reviews, data, idx, open_reviews>>
       \/ \* status_code is not 200: the change adds nothing
          /\ GerritReturn(data)
          /\ UNCHANGED error
       \/ \* status_code is 200
          \E fs \in FilesResponses :
              /\ GerritReturn(AddFiles(data, fs, data_reviews[idx]))
              /\ UNCHANGED error
    /\ UNCHANGED <<constraintVars, stdout, tableVars, templateVars, obsVars,
                   include_projects, yaml_files, projects, table>>

\* lines 276-283: the two directories are listed
ListDeliverables ==
    /\ pc = "listdir"
    /\ yaml_files' \in YamlListings
    /\ idx' = 1
    /\ pc' = "yaml"
    /\ UNCHANGED <<constraintVars, stdout, tableVars, templateVars, obsVars,
                   include_projects, projects, data_reviews, data,
                   open_reviews, error, table>>

\* lines 284-329: one descriptor file
ProcessYamlFile ==
    /\ pc = "yaml"
    /\ idx <= Len(yaml_files)
    /\ LET yaml_file == yaml_files[idx]
           project_name == ProjectNameOf(yaml_file.basename)
       IN  IF FilteredOut(project_name, include_projects)
              \/ ~yaml_file.data.has_releases
           THEN \* continue
                /\ idx' = idx + 1
                /\ UNCHANGED <<pc, projects, error, stdout>>
           ELSE IF yaml_file.data.releases = <<>>
           THEN \* max() of an empty list raises
                /\ error' = "ValueError"
                /\ pc' = "raised"
                /\ UNCHANGED <<idx, projects, stdout>>
           ELSE LET v_release ==
                        FindHighestReleaseVersion(yaml_file.data.releases)
                    project_name_pkg ==
                        IF v_release.tarball_base # ""
                        THEN v_release.tarball_base
                        ELSE project_name
                    v_upper_constraints ==
                        IF project_name \in DOMAIN upper_constraints
                        THEN upper_constraints[project_name]
                        ELSE Dash
                    r == FindRpmPackagingPkgVersion(
                             RpmPackagingGitDir(project_name_pkg))
                    v_obs == FindOpenbuildservicePkgVersion(
                                 published_xml, <<project_name>>)
                    project_reviews ==
                        IF project_name \in DOMAIN open_reviews
                        THEN open_reviews[project_name]
                        ELSE <<>>
                IN  /\ projects' =
                           DictSet(projects, project_name,
                                   [release |-> Parse(v_release.version),
                                    upper_constraints |-> v_upper_constraints,
                                    rpm_packaging_pkg |-> r.ret,
                                    reviews |-> project_reviews,
                                    obs_published |-> v_obs])
                    /\ stdout' = stdout \o r.out
                    /\ idx' = idx + 1
                    /\ UNCHANGED <<pc, error>>
    /\ UNCHANGED <<constraintVars, tableVars, templateVars, obsVars,
                   include_projects, yaml_files, data_reviews, data,
                   open_reviews, table>>

\* lines 331-337: the table is rendered, one row per record
Output ==
    /\ pc = "yaml"
    /\ idx > Len(yaml_files)
    /\ table' = [n \in DOMAIN projects |-> CommentOf(projects[n])]
    /\ pc' = "done"
    /\ UNCHANGED <<constraintVars, stdout, tableVars, templateVars, obsVars,
                   include_projects, yaml_files, idx, projects, data_reviews,
                   data, open_reviews, error>>

Next ==
    \/ MainReadUpperConstraints
    \/ GerritChangesRequest
    \/ GerritFilesRequest
    \/ ListDeliverables
    \/ ProcessYamlFile
    \/ Output

Spec == Init /\ [][Next]_vars

-----------------------------------------------------------------------------
(* Claims about _pretty_table (SpecTable) *)

IsVersion(v) == v # VersionUnset /\ v # NoValue

\* C1 as stated: for versions a < b, the row (release=b, packaging=a) is
\* labelled 'needs upgrade' and the row (release=a, packaging=b) is labelled
\* 'needs downgrade', the zero version included.
C1_Original ==
    (pc = "done" /\ IsVersion(x.rpm_packaging_pkg)) =>
        /\ VLt(x.rpm_packaging_pkg, x.release) => comment = "needs upgrade"
        /\ VLt(x.release, x.rpm_packaging_pkg) => comment = "needs downgrade"

\* C1 amended: for versions a < b, the row (release=b, packaging=a) is
\* labelled 'needs upgrade' when a does not equal the zero version, the row
\* (release=a, packaging=b) is labelled 'needs downgrade' when b does not
\* equal the zero version, and a packaging version equal to the zero version
\* is labelled 'unpackaged' whatever the release.
C1_UpgradeDowngrade ==
    (pc = "done" /\ IsVersion(x.rpm_packaging_pkg)) =>
        IF VEq(x.rpm_packaging_pkg, ZeroVersion)
        THEN comment = "unpackaged"
        ELSE /\ VLt(x.rpm_packaging_pkg, x.release)
                    => comment = "needs upgrade"
             /\ VLt(x.release, x.rpm_packaging_pkg)
                    => comment = "needs downgrade"

C1_Witness ==
    /\ pc = "done"
    /\ IsVersion(x.rpm_packaging_pkg)
    /\ ~VEq(x.rpm_packaging_pkg, ZeroVersion)
    /\ VLt(x.rpm_packaging_pkg, x.release)
    /\ x.rpm_packaging_pkg.release # StripZeros(x.rpm_packaging_pkg.release)
    /\ comment = "needs upgrade"

\* C2: a row whose packaging version equals its release version (neither
\* 'version unset' nor the zero version) is labelled 'ok' for every value of
\* the constraint, and no row is ever labelled 'needs downgrade (u-c)'.
C2_EqualIsOk ==
    pc = "done" =>
        /\ comment # "needs downgrade (u-c)"
        /\ (/\ IsVersion(x.rpm_packaging_pkg)
            /\ ~VEq(x.rpm_packaging_pkg, ZeroVersion)
            /\ VEq(x.rpm_packaging_pkg, x.release)) => comment = "ok"

C2_Witness ==
    /\ pc = "done"
    /\ IsVersion(x.rpm_packaging_pkg)
    /\ ~VEq(x.rpm_packaging_pkg, ZeroVersion)
    /\ VEq(x.rpm_packaging_pkg, x.release)
    /\ x.upper_constraints # Dash
    /\ VGt(x.release, Parse(x.upper_constraints))
    /\ comment = "ok"

-----------------------------------------------------------------------------
(* Claims about find_rpm_packaging_pkg_version (SpecTemplate) *)

Lines == pkg_project_spec.lines

MarkerLines == {i \in 1..Len(Lines) : MarkerMatches(Lines[i])}
FieldLines == {i \in 1..Len(Lines) : VersionMatches(Lines[i])}

Min(S) == CHOOSE m \in S : \A n \in S : m <= n

FirstMarkerVersion == Parse(MarkerGroup(Lines[Min(MarkerLines)]))

NoLineMatches ==
    \A i \in 1..Len(Lines) :
        ~MarkerMatches(Lines[i]) /\ ~VersionMatches(Lines[i])

\* C4: without an extractable version the function returns the zero version
\* in both cases; it prints its message exactly when the file exists and no
\* line matches, and prints nothing when the file does not exist.
C4_ZeroAndDiagnostic ==
    pc = "done" =>
        /\ ~pkg_project_spec.exists
              => v_rpm_packaging_pkg = ZeroVersion /\ stdout = <<>>
        /\ (pkg_project_spec.exists /\ NoLineMatches)
              => v_rpm_packaging_pkg = ZeroVersion
                 /\ stdout = <<ErrorMessage>>
        /\ stdout # <<>> <=> (pkg_project_spec.exists /\ NoLineMatches)

C4_Witness ==
    /\ pc = "done"
    /\ pkg_project_spec.exists
    /\ Len(Lines) >= 2
    /\ NoLineMatches
    /\ v_rpm_packaging_pkg = ZeroVersion
    /\ stdout = <<ErrorMessage>>

-----------------------------------------------------------------------------
(* Claims about read_upper_constraints (SpecConstraints) *)

\* the requirement text of line i: what stands before the first ';'
ReqText(i) ==
    LET l == constraints_txt[i]
    IN  IF \E k \in 1..Len(l) : l[k] = ";"
        THEN SubSeq(l, 1, Min({k \in 1..Len(l) : l[k] = ";"}) - 1)
        ELSE l

Operators == {"===", "==", "<", ">=", ","}

\* the (operator, version) pairs written in the requirement text of line i
SpecsOfLine(i) ==
    LET t == ReqText(i)
    IN  {[operator |-> t[k],
          version  |-> SubSeq(t, k + 1,
                              Min({j \in (k + 1)..(Len(t) + 1) :
                                      j = Len(t) + 1 \/ t[j] \in Operators})
                              - 1)] :
            k \in {k \in 2..Len(t) : t[k] \in Operators \ {","}}}

LinesOf(n) == {i \in 1..Len(constraints_txt) : constraints_txt[i][1] = n}

LinesWithSpecs(n) == {i \in LinesOf(n) : SpecsOfLine(i) # {}}

ExactSpecs(i) == {sp \in SpecsOfLine(i) : sp.operator \in {"===", "=="}}

Max(S) == CHOOSE m \in S : \A n \in S : n <= m

\* C5 as stated: an entry is recorded only from a specifier with an
\* exact-version operator; a package whose lines hold only other operators
\* has no entry; text after ';' is ignored.
C5_Original ==
    pc = "done" =>
        \A n \in ProjectNames :
            /\ n \in DOMAIN upper_constraints
                  => \E i \in LinesOf(n) : \E sp \in ExactSpecs(i) :
                         upper_constraints[n] = sp.version
            /\ (\A i \in LinesOf(n) : ExactSpecs(i) = {})
                  => n \notin DOMAIN upper_constraints

\* C5 amended: an entry is recorded from one of the specifiers of a line
\* whatever its operator ('<2,>=1' maps the package to 2 or to 1, '===1'
\* maps it to 1); only a package none of whose lines holds a specifier has
\* no entry; text after ';' is ignored.
C5_AnyOperator ==
    pc = "done" =>
        /\ DOMAIN upper_constraints =
               {n \in ProjectNames : LinesWithSpecs(n) # {}}
        /\ \A n \in DOMAIN upper_constraints :
               \E i \in LinesOf(n) : \E sp \in SpecsOfLine(i) :
                   upper_constraints[n] = sp.version

C5_Witness ==
    /\ pc = "done"
    /\ \E n \in DOMAIN upper_constraints :
          /\ \A i \in LinesOf(n) : ExactSpecs(i) = {}
          /\ \E i \in LinesOf(n) :
                /\ Cardinality(SpecsOfLine(i)) = 2
                /\ ReqText(i) # constraints_txt[i]
    /\ \E n \in DOMAIN upper_constraints :
          \E i \in LinesOf(n) : \E sp \in ExactSpecs(i) :
              upper_constraints[n] = sp.version

\* C9 as stated: a package named on several lines keeps the version of the
\* first of them; no later line replaces it.
C9_Original ==
    pc = "done" =>
        \A n \in DOMAIN upper_constraints :
            \E sp \in SpecsOfLine(Min(LinesWithSpecs(n))) :
                upper_constraints[n] = sp.version

\* C9 amended: a package named on several lines ends with the version of the
\* last of its lines that holds a specifier; every such line replaces the
\* entry of the lines before it.
C9_LastLineWins ==
    pc = "done" =>
        \A n \in DOMAIN upper_constraints :
            \E sp \in SpecsOfLine(Max(LinesWithSpecs(n))) :
                upper_constraints[n] = sp.version

C9_Witness ==
    /\ pc = "done"
    /\ \E n \in DOMAIN upper_constraints :
          /\ Cardinality(LinesWithSpecs(n)) >= 2
          /\ \A sp \in SpecsOfLine(Min(LinesWithSpecs(n))) :
                upper_constraints[n] # sp.version
          /\ \E sp \in SpecsOfLine(Max(LinesWithSpecs(n))) :
                upper_constraints[n] = sp.version

-----------------------------------------------------------------------------
(* Claims about find_openbuildservice_pkg_version (SpecObs) *)

\* the versions v for which entry i is a binary package of the mapped name:
\* [epoch:]name-v-release.arch.rpm
VersionsOfEntry(i) ==
    LET e == published_xml.lines[i]
        d == <<"python", "-">> \o pkg_name
    IN  {v \in ObsVers :
            \/ e = d \o <<"-">> \o v \o <<"-", "1", ".", "noarch", ".", "rpm">>
            \/ e = <<"1", ":">> \o d \o <<"-">> \o v
                       \o <<"-", "1", ".", "noarch", ".", "rpm">>}

MatchingEntries ==
    {i \in 1..Len(published_xml.lines) : VersionsOfEntry(i) # {}}

VersionOfEntry(i) == Parse(CHOOSE v \in VersionsOfEntry(i) : TRUE)

ManifestRead == published_xml.given /\ published_xml.exists

\* C10 as stated: with several matching binary entries the highest of their
\* versions is returned whatever their order; the zero version when no entry
\* matches.
C10_Original ==
    (pc = "done" /\ ManifestRead) =>
        IF MatchingEntries = {} THEN v_obs_published = ZeroVersion
        ELSE /\ \E i \in MatchingEntries :
                    VEq(v_obs_published, VersionOfEntry(i))
             /\ \A i \in MatchingEntries :
                    ~VLt(v_obs_published, VersionOfEntry(i))

\* C10 amended: with several matching binary entries the version of the
\* first of them in manifest order is returned; the zero version when no
\* entry matches.
C10_FirstMatchingEntry ==
    (pc = "done" /\ ManifestRead) =>
        IF MatchingEntries = {} THEN v_obs_published = ZeroVersion
        ELSE v_obs_published = VersionOfEntry(Min(MatchingEntries))

C10_Witness ==
    /\ pc = "done"
    /\ ManifestRead
    /\ Cardinality(MatchingEntries) >= 2
    /\ Min(MatchingEntries) > 1
    /\ v_obs_published = VersionOfEntry(Min(MatchingEntries))
    /\ \E i \in MatchingEntries : VLt(v_obs_published, VersionOfEntry(i))

-----------------------------------------------------------------------------
(* Claims about main (Spec) *)

\* C6 as stated: whatever the outcome of the change-list request and of each
\* file-list request (transport failure included), the run is not aborted:
\* a dict is returned and the report is rendered.
C6_NoNetworkAbort == error # "ConnectionError"

\* the descriptor files main has gone through
Processed == IF pc = "done" THEN Len(yaml_files) ELSE idx - 1

NameOfFile(i) == yaml_files[i].basename[1]

Included(n) == include_projects = {} \/ n \in include_projects

\* C7: after any sequence of descriptor files, projects holds one record for
\* each name that passes the include list and has a descriptor with a
\* 'releases' field, and none for any other name; the table has one row per
\* record.
C7_OneRecordPerProject ==
    /\ pc \in {"yaml", "done"} =>
           DOMAIN projects =
               {n \in ProjectNames :
                   /\ Included(n)
                   /\ \E i \in 1..Processed :
                          /\ NameOfFile(i) = n
                          /\ yaml_files[i].data.has_releases}
    /\ pc = "done" => DOMAIN table = DOMAIN projects

C7_Witness ==
    /\ pc = "done"
    /\ include_projects = {"foo"}
    /\ \E i, j \in 1..Len(yaml_files) :
          /\ yaml_files[i].dir # yaml_files[j].dir
          /\ NameOfFile(i) = "foo" /\ NameOfFile(j) = "foo"
          /\ yaml_files[i].data.has_releases
          /\ ~yaml_files[j].data.has_releases
    /\ DOMAIN projects = {"foo"}

====
